---------------------------- MODULE Spec2Model ----------------------------
(***************************************************************************)
(* Model of the three route-rewriting scripts of kgaytripguides:           *)
(*   final_fix_locations.py, fix_locations_manually.py and                 *)
(*   update_locations_routes.py.                                           *)
(*                                                                         *)
(* Text is a sequence of tokens.  A token is a TLA+ string standing for    *)
(* the same characters of the file; the vocabulary is cut so that every    *)
(* literal the scripts search for ('async (', '});', 'try {', a route      *)
(* prefix, ...) is a whole number of tokens, hence Python's substring      *)
(* test, str.replace, str.count and re.sub are modelled by the same        *)
(* operations on token sequences.  Every quote, brace and newline          *)
(* character is a token of its own.                                        *)
(*                                                                         *)
(* A text that starts with a run of empty lines is kept as the record      *)
(* [pad |-> n, toks |-> s]: n newline characters followed by the tokens s. *)
(***************************************************************************)
EXTENDS Integers, Sequences, FiniteSets, TLC

(***************************************************************************)
(* Tokens with a meaning to the scripts.                                   *)
(***************************************************************************)
SP == " "
NL == "\n"
SQ == "'"
DQ == "\""
BSL == "\\"

WhiteSpace == {SP, NL}
Quotes == {SQ, DQ}

(***************************************************************************)
(* Python's str operations, on token sequences.                            *)
(***************************************************************************)
\* s[k..] starts with p.
StartsAt(s, p, k) ==
    /\ k >= 1
    /\ k + Len(p) - 1 <= Len(s)
    /\ \A j \in 1..Len(p) : s[k + j - 1] = p[j]

\* p in s
Contains(s, p) == \E k \in 1..Len(s) : StartsAt(s, p, k)

\* s.count(t) for a one-character token t
Count(s, t) == Cardinality({k \in DOMAIN s : s[k] = t})

Min(S) == CHOOSE m \in S : \A h \in S : m <= h

RECURSIVE ReplaceFrom(_, _, _, _, _)
\* s[k..] with the occurrences of old (they start at the positions M)
\* replaced, leftmost first, not overlapping.
ReplaceFrom(s, M, old, new, k) ==
    LET left == {m \in M : m >= k} IN
    IF left = {} THEN SubSeq(s, k, Len(s))
    ELSE SubSeq(s, k, Min(left) - 1) \o new
         \o ReplaceFrom(s, M, old, new, Min(left) + Len(old))

\* s.replace(old, new): every occurrence, leftmost first, not overlapping.
Replace(s, old, new) ==
    ReplaceFrom(s, {m \in 1..Len(s) : StartsAt(s, old, m)}, old, new, 1)

RECURSIVE Concat(_)
\* ''.join(lines)
Concat(ls) == IF ls = <<>> THEN <<>> ELSE Head(ls) \o Concat(Tail(ls))

\* The lines of s, each with its newline (file.readlines()); a last line
\* without a newline is a line too.
SplitLines(s) ==
    LET ends == ({k \in 1..Len(s) : s[k] = NL} \cup {Len(s)}) \ {0}
        EndOf(j) == CHOOSE k \in ends : Cardinality({h \in ends : h <= k}) = j
        StartOf(j) == IF j = 1 THEN 1 ELSE EndOf(j - 1) + 1
    IN [j \in 1..Cardinality(ends) |-> SubSeq(s, StartOf(j), EndOf(j))]

(***************************************************************************)
(* Python's re.sub for the regular expressions the scripts use.  A pattern *)
(* is a sequence of elements:                                              *)
(*   [k |-> "lit", t |-> tok]   the literal characters of tok              *)
(*   [k |-> "ws"]               any run of white space                     *)
(*   [k |-> "q",   of |-> Q]    one character of the class Q, as ['"]      *)
(*   [k |-> "cap", no |-> Q, min |-> n]                                    *)
(*                              a group of [^Q] repeated, n times or more  *)
(*   [k |-> "open"], [k |-> "close"]   the parentheses of a group around   *)
(*                              other elements                             *)
(* In every pattern of the scripts a white-space or [^Q] run is followed   *)
(* by a character it cannot match: the greedy match never backtracks.      *)
(***************************************************************************)
Lit(t) == [k |-> "lit", t |-> t]
Ws == [k |-> "ws"]
OneOf(Q) == [k |-> "q", of |-> Q]
Cap(Q, n) == [k |-> "cap", no |-> Q, min |-> n]
Open == [k |-> "open"]
Close == [k |-> "close"]

Lits(s) == [j \in 1..Len(s) |-> Lit(s[j])]

\* The first position from k on whose token is not in S (Len(s)+1 if none).
RunEnd(s, k, S) ==
    Min({n \in k..Len(s) : s[n] \notin S} \cup {Len(s) + 1})

\* The first position from k on whose token is in Q (Len(s)+1 if none).
RunEndNot(s, k, Q) ==
    Min({n \in k..Len(s) : s[n] \in Q} \cup {Len(s) + 1})

RECURSIVE MatchFrom(_, _, _, _, _, _)
\* Match pat[j..] at s[k..]; groups are the captured token sequences so far,
\* from is the start of the group that is open.  [ok, end, groups].
MatchFrom(s, pat, j, k, groups, from) ==
    IF j > Len(pat) THEN [ok |-> TRUE, end |-> k, groups |-> groups]
    ELSE LET e == pat[j] IN
      CASE e.k = "lit" ->
             IF k <= Len(s) /\ s[k] = e.t
             THEN MatchFrom(s, pat, j + 1, k + 1, groups, from)
             ELSE [ok |-> FALSE, end |-> k, groups |-> groups]
        [] e.k = "ws" ->
             MatchFrom(s, pat, j + 1, RunEnd(s, k, WhiteSpace), groups, from)
        [] e.k = "q" ->
             IF k <= Len(s) /\ s[k] \in e.of
             THEN MatchFrom(s, pat, j + 1, k + 1, groups, from)
             ELSE [ok |-> FALSE, end |-> k, groups |-> groups]
        [] e.k = "cap" ->
             LET n == RunEndNot(s, k, e.no) IN
             IF n - k >= e.min
             THEN MatchFrom(s, pat, j + 1, n,
                            Append(groups, SubSeq(s, k, n - 1)), from)
             ELSE [ok |-> FALSE, end |-> k, groups |-> groups]
        [] e.k = "open" ->
             MatchFrom(s, pat, j + 1, k, groups, k)
        [] e.k = "close" ->
             MatchFrom(s, pat, j + 1, k,
                       Append(groups, SubSeq(s, from, k - 1)), from)

MatchAt(s, pat, k) == MatchFrom(s, pat, 1, k, <<>>, k)

\* A replacement template is a sequence of [g |-> 0, t |-> tok] (the
\* characters of tok) and [g |-> n, t |-> ""] (group n, written \n).
T(t) == [g |-> 0, t |-> t]
G(n) == [g |-> n, t |-> ""]
Ts(s) == [j \in 1..Len(s) |-> T(s[j])]

RECURSIVE Expand(_, _)
Expand(tpl, groups) ==
    IF tpl = <<>> THEN <<>>
    ELSE (IF Head(tpl).g = 0 THEN <<Head(tpl).t>> ELSE groups[Head(tpl).g])
         \o Expand(Tail(tpl), groups)

\* The positions of s where pat matches.
Matches(s, pat) == {m \in 1..Len(s) : MatchAt(s, pat, m).ok}

RECURSIVE SubFrom(_, _, _, _, _)
\* s[k..] with the matches of pat (they start at the positions M) replaced,
\* leftmost first, not overlapping.
SubFrom(s, M, pat, tpl, k) ==
    LET left == {m \in M : m >= k} IN
    IF left = {} THEN SubSeq(s, k, Len(s))
    ELSE LET m == MatchAt(s, pat, Min(left)) IN
         SubSeq(s, k, Min(left) - 1) \o Expand(tpl, m.groups)
         \o SubFrom(s, M, pat, tpl, m.end)

\* re.sub(pat, tpl, s): every match, leftmost first, not overlapping.  No
\* pattern of the scripts matches the empty string.
ReSub(pat, tpl, s) == SubFrom(s, Matches(s, pat), pat, tpl, 1)

\* re.search(pat, s): the leftmost match, or ok = FALSE.
ReSearch(pat, s) ==
    IF Matches(s, pat) = {}
    THEN [ok |-> FALSE, end |-> 0, groups |-> <<>>]
    ELSE MatchAt(s, pat, Min(Matches(s, pat)))

(***************************************************************************)
(* The text of a route registration.  A path is the sequence of its        *)
(* segments; "/venue" is a token of its own because the prefix             *)
(* 'app.get("/api/venue' is searched for.                                  *)
(***************************************************************************)
GET == "app.get("
POST == "app.post("
PUT == "app.put("
DELETE == "app.delete("

Amenities == <<"/api", "/amenities">>
AmenitiesStats == <<"/api", "/amenities", "/stats">>
AmenitiesId == <<"/api", "/amenities", "/:id">>
VenueTypes == <<"/api", "/venue", "-types">>
Venues == <<"/api", "/venue", "s">>
VenuesStats == <<"/api", "/venue", "s", "/stats">>
VenuesId == <<"/api", "/venue", "s", "/:id">>
Resorts == <<"/api", "/resorts">>
ResortsStats == <<"/api", "/resorts", "/stats">>
ResortsId == <<"/api", "/resorts", "/:id">>
ShipsAmenities == <<"/api", "/ships", "/:id", "/amenities">>
ShipsVenues == <<"/api", "/ships", "/:id", "/venue", "s">>
ResortsAmenities == <<"/api", "/resorts", "/:id", "/amenities">>
ResortsVenues == <<"/api", "/resorts", "/:id", "/venue", "s">>
\* A route none of the scripts lists.
Locations == <<"/api", "/locations">>

\* The parameter lists of the handlers, up to their closing parenthesis.
ReqRes == "req: AuthenticatedRequest, res: Response)"
ReqOnly == "req: AuthenticatedRequest, res)"

\* The middleware between the path and the handler.
Public == <<>>
Audit(a) == <<"auditLogger(", SQ, a, SQ, ")", ",", SP>>
Editor(a) == <<"requireContentEditor", ",", SP>> \o Audit(a)
EditorId(a) ==
    <<"requireContentEditor", ",", SP,
      "validateParams(idParamSchema as any)", ",", SP>> \o Audit(a)

\* app.get("/api/amenities", <middleware>
Route(verb, path, mw) == <<verb, DQ>> \o path \o <<DQ, ",", SP>> \o mw

ASYNC == <<"async", SP>>
ASYNC_PAREN == <<"async", SP, "(">>
HANDLER_ASYNC == <<"asyncHandler", "(", "async", SP>>
HANDLER_ASYNC_PAREN == <<"asyncHandler", "(", "async", SP, "(">>
ARROW == <<SP, "=>">>
ARROW_BRACE == <<SP, "=>", SP, "{">>

\* route, then `async (<params> =>`
Signature(verb, path, mw, params) ==
    Route(verb, path, mw) \o ASYNC_PAREN \o <<params>> \o ARROW

(***************************************************************************)
(* final_fix_locations.py                                                  *)
(***************************************************************************)
FinalRoutesToUpdate ==
    << Signature(GET, Amenities, Public, ReqRes),
       Signature(GET, AmenitiesId, Public, ReqRes),
       Signature(POST, Amenities, Editor("admin.amenity.create"), ReqOnly),
       Signature(PUT, AmenitiesId, EditorId("admin.amenity.update"), ReqOnly),
       Signature(DELETE, AmenitiesId, Editor("admin.amenity.delete"), ReqOnly),
       Signature(GET, VenueTypes, Public, ReqRes),
       Signature(GET, VenuesStats, Public, ReqRes),
       Signature(GET, Venues, Public, ReqRes),
       Signature(GET, VenuesId, Public, ReqRes),
       Signature(POST, Venues, Editor("admin.venue.create"), ReqOnly),
       Signature(PUT, VenuesId, EditorId("admin.venue.update"), ReqOnly),
       Signature(DELETE, VenuesId, Editor("admin.venue.delete"), ReqOnly),
       Signature(GET, ResortsStats, Public, ReqRes),
       Signature(GET, Resorts, Public, ReqRes),
       Signature(GET, ResortsId, Public, ReqRes),
       Signature(POST, Resorts, Editor("admin.resort.create"), ReqOnly),
       Signature(PUT, ResortsId, EditorId("admin.resort.update"), ReqOnly),
       Signature(DELETE, ResortsId, Editor("admin.resort.delete"), ReqOnly),
       Signature(GET, ShipsAmenities, Public, ReqRes),
       Signature(PUT, ShipsAmenities,
                 Editor("admin.ship.amenities.update"), ReqOnly),
       Signature(GET, ShipsVenues, Public, ReqRes),
       Signature(PUT, ShipsVenues, Editor("admin.ship.venues.update"), ReqOnly),
       Signature(GET, ResortsAmenities, Public, ReqRes),
       Signature(PUT, ResortsAmenities,
                 Editor("admin.resort.amenities.update"), ReqOnly),
       Signature(GET, ResortsVenues, Public, ReqRes),
       Signature(PUT, ResortsVenues,
                 Editor("admin.resort.venues.update"), ReqOnly) >>

\* The text searched for: the signature with its opening brace.
FinalOld(route_pattern) == Replace(route_pattern, ARROW, ARROW_BRACE)

\* The text put in its place.
FinalNew(route_pattern) ==
    Replace(Replace(route_pattern, <<SP>> \o ASYNC_PAREN,
                    <<SP>> \o HANDLER_ASYNC_PAREN),
            ARROW, ARROW_BRACE)

\* (Len(replaced) >= 0 is always true: it has TLC evaluate one pass of the
\* loop before the next one starts.)
RECURSIVE FinalWrapFrom(_, _)
FinalWrapFrom(content, routes) ==
    IF routes = <<>> THEN content
    ELSE LET replaced == Replace(content, FinalOld(Head(routes)),
                                 FinalNew(Head(routes)))
         IN IF Len(replaced) >= 0 THEN FinalWrapFrom(replaced, Tail(routes))
            ELSE replaced

\* for line_num, route_pattern in routes_to_update: content = content.replace(..)
FinalWrap(content) == FinalWrapFrom(content, FinalRoutesToUpdate)

RETURN == <<"return", SP>>
Res500 == "res.status(500).json("
Res404 == "res.status(404).json("
Res400 == "res.status(400).json("
Res409 == "res.status(409).json("
Res503 == "res.status(503).json("
THROW == <<"throw", SP>>

\* return res\.status\(N\)\.json\(\{ error: Q([^Q]+)Q \}\);
FinalErrorPattern(res, q) ==
    Lits(RETURN \o <<res, "{", SP, "error:", SP, q>>)
    \o <<Cap({q}, 1)>> \o Lits(<<q, SP, "}", ")", ";">>)

\* throw ApiError.kind(Q\1Q);
FinalThrow(kind, q) == Ts(THROW \o <<kind, q>>) \o <<G(1)>> \o Ts(<<q, ")", ";">>)

FinalPatterns ==
    << <<FinalErrorPattern(Res500, SQ), FinalThrow("ApiError.internal(", SQ)>>,
       <<FinalErrorPattern(Res404, DQ), FinalThrow("ApiError.notFound(", DQ)>>,
       <<FinalErrorPattern(Res404, SQ), FinalThrow("ApiError.notFound(", SQ)>>,
       <<FinalErrorPattern(Res400, SQ), FinalThrow("ApiError.badRequest(", SQ)>>,
       <<FinalErrorPattern(Res409, SQ), FinalThrow("ApiError.conflict(", SQ)>>,
       << Lits(RETURN \o <<Res503, "{">>) \o <<Ws>>
            \o Lits(<<"error:", SP, SQ>>) \o <<Cap({SQ}, 1)>>
            \o Lits(<<SQ, ",">>) \o <<Ws>>
            \o Lits(<<"details:", SP, SQ>>) \o <<Cap({SQ}, 1)>>
            \o Lits(<<SQ>>) \o <<Ws>> \o Lits(<<"}", ")", ";">>),
          Ts(THROW \o <<"ApiError.serviceUnavailable(", SQ>>) \o <<G(1)>>
            \o Ts(<<SQ, ",", SP, SQ>>) \o <<G(2)>> \o Ts(<<SQ, ")", ";">>) >> >>

RECURSIVE ApplyPatterns(_, _)
\* for pattern, replacement in patterns: content = re.sub(pattern, ..)
ApplyPatterns(patterns, content) ==
    IF patterns = <<>> THEN content
    ELSE LET replaced == ReSub(Head(patterns)[1], Head(patterns)[2], content)
         IN IF Len(replaced) >= 0
            THEN ApplyPatterns(Tail(patterns), replaced)
            ELSE replaced

CLOSE == <<"}", ")", ";">>
CLOSE_WRAPPED == <<"}", ")", ")", ";">>

\* r'\}\);(\s*//\s*===)'
FinalCloseSection ==
    Lits(CLOSE) \o <<Open, Ws>> \o Lits(<<"//">>) \o <<Ws>>
    \o Lits(<<"===">>) \o <<Close>>

\* r'\}\);(\s*\})'
FinalCloseBrace == Lits(CLOSE) \o <<Open, Ws>> \o Lits(<<"}">>) \o <<Close>>

\* re.sub(r'\}\);(\s*//\s*===)', r'}));\1', content), then
\* re.sub(r'\}\);(\s*\})', r'}));\1', content)
FinalCloseFix(content) ==
    LET a == ReSub(FinalCloseSection, Ts(CLOSE_WRAPPED) \o <<G(1)>>, content)
    IN ReSub(FinalCloseBrace, Ts(CLOSE_WRAPPED) \o <<G(1)>>, a)

\* The three passes of the script over the text it read.
FinalTransform(content) ==
    FinalCloseFix(ApplyPatterns(FinalPatterns, FinalWrap(content)))

(***************************************************************************)
(* update_locations_routes.py                                              *)
(***************************************************************************)
\* (old, new): the route up to `async `, and the same with the wrapper.
UpdatePair(verb, path, mw) ==
    <<Route(verb, path, mw) \o ASYNC, Route(verb, path, mw) \o HANDLER_ASYNC>>

UpdateRoutesToUpdate ==
    << UpdatePair(GET, AmenitiesStats, Public),
       UpdatePair(GET, Amenities, Public),
       UpdatePair(GET, AmenitiesId, Public),
       UpdatePair(POST, Amenities, Editor("admin.amenity.create")),
       UpdatePair(PUT, AmenitiesId, EditorId("admin.amenity.update")),
       UpdatePair(DELETE, AmenitiesId, Editor("admin.amenity.delete")),
       UpdatePair(GET, VenueTypes, Public),
       UpdatePair(GET, VenuesStats, Public),
       UpdatePair(GET, Venues, Public),
       UpdatePair(GET, VenuesId, Public),
       UpdatePair(POST, Venues, Editor("admin.venue.create")),
       UpdatePair(PUT, VenuesId, EditorId("admin.venue.update")),
       UpdatePair(DELETE, VenuesId, Editor("admin.venue.delete")),
       UpdatePair(GET, ResortsStats, Public),
       UpdatePair(GET, Resorts, Public),
       UpdatePair(GET, ResortsId, Public),
       UpdatePair(POST, Resorts, Editor("admin.resort.create")),
       UpdatePair(PUT, ResortsId, EditorId("admin.resort.update")),
       UpdatePair(DELETE, ResortsId, Editor("admin.resort.delete")),
       UpdatePair(GET, ShipsAmenities, Public),
       UpdatePair(PUT, ShipsAmenities, Editor("admin.ship.amenities.update")),
       UpdatePair(GET, ShipsVenues, Public),
       UpdatePair(PUT, ShipsVenues, Editor("admin.ship.venues.update")),
       UpdatePair(GET, ResortsAmenities, Public),
       UpdatePair(PUT, ResortsAmenities,
                  Editor("admin.resort.amenities.update")),
       UpdatePair(GET, ResortsVenues, Public),
       UpdatePair(PUT, ResortsVenues, Editor("admin.resort.venues.update")) >>

RECURSIVE UpdateWrapFrom(_, _)
UpdateWrapFrom(content, routes) ==
    IF routes = <<>> THEN content
    ELSE LET replaced == Replace(content, Head(routes)[1], Head(routes)[2])
         IN IF Len(replaced) >= 0 THEN UpdateWrapFrom(replaced, Tail(routes))
            ELSE replaced

\* for old, new in routes_to_update: content = content.replace(old, new)
UpdateWrap(content) == UpdateWrapFrom(content, UpdateRoutesToUpdate)

\* return res\.status\(N\)\.json\(\{ error: ['"]([^'"]*)['"]\s*\}\)
UpdateErrorPattern(res) ==
    Lits(RETURN \o <<res, "{", SP, "error:", SP>>)
    \o <<OneOf(Quotes), Cap(Quotes, 0), OneOf(Quotes), Ws>>
    \o Lits(<<"}", ")">>)

\* r'throw ApiError.kind(\'\1\')': the backslashes stay in the output.
UpdateThrow(kind) ==
    Ts(THROW \o <<kind, BSL, SQ>>) \o <<G(1)>> \o Ts(<<BSL, SQ, ")">>)

UpdatePatterns ==
    << <<UpdateErrorPattern(Res500), UpdateThrow("ApiError.internal(")>>,
       <<UpdateErrorPattern(Res404), UpdateThrow("ApiError.notFound(")>>,
       <<UpdateErrorPattern(Res400), UpdateThrow("ApiError.badRequest(")>>,
       <<UpdateErrorPattern(Res409), UpdateThrow("ApiError.conflict(")>>,
       << Lits(RETURN \o <<Res503, "{">>) \o <<Ws>>
            \o Lits(<<"error:", SP>>)
            \o <<OneOf(Quotes), Cap(Quotes, 0), OneOf(Quotes), Ws>>
            \o Lits(<<",">>) \o <<Ws>> \o Lits(<<"details:", SP>>)
            \o <<OneOf(Quotes), Cap(Quotes, 0), OneOf(Quotes), Ws>>
            \o Lits(<<"}", ")">>),
          Ts(THROW \o <<"ApiError.serviceUnavailable(", BSL, SQ>>) \o <<G(1)>>
            \o Ts(<<BSL, SQ, ",", SP, BSL, SQ>>) \o <<G(2)>>
            \o Ts(<<BSL, SQ, ")">>) >> >>

\* r'\}\);(\s*//)'
UpdateClosePattern == Lits(CLOSE) \o <<Open, Ws>> \o Lits(<<"//">>) \o <<Close>>

\* The closing rewritten wherever it stands, not only before a comment.
UpdateCloseAll(content) == Replace(content, CLOSE, CLOSE_WRAPPED)

\* re.sub(r'\}\);(\s*//)', r'}));\\1', content): the template's \\1 is an
\* escaped backslash and the digit 1, not group 1.
UpdateCloseFix(content) ==
    ReSub(UpdateClosePattern, Ts(CLOSE_WRAPPED \o <<BSL, "1">>), content)

UpdateTransform(content) ==
    UpdateCloseFix(ApplyPatterns(UpdatePatterns, UpdateWrap(content)))

(***************************************************************************)
(* fix_locations_manually.py: the tests and rewrites of one line.          *)
(***************************************************************************)
\* if i >= 593
StartIndex == 593

ManualRoutePrefixes ==
    { <<GET, DQ>> \o Amenities, <<POST, DQ>> \o Amenities,
      <<PUT, DQ>> \o Amenities, <<DELETE, DQ>> \o Amenities,
      <<GET, DQ, "/api", "/venue">>, <<POST, DQ, "/api", "/venue">>,
      <<PUT, DQ, "/api", "/venue">>, <<DELETE, DQ, "/api", "/venue">>,
      <<GET, DQ>> \o Resorts, <<POST, DQ>> \o Resorts,
      <<PUT, DQ>> \o Resorts, <<DELETE, DQ>> \o Resorts,
      <<GET, DQ>> \o ShipsAmenities, <<PUT, DQ>> \o ShipsAmenities,
      <<GET, DQ>> \o ShipsVenues, <<PUT, DQ>> \o ShipsVenues,
      <<GET, DQ>> \o ResortsAmenities, <<PUT, DQ>> \o ResortsAmenities,
      <<GET, DQ>> \o ResortsVenues, <<PUT, DQ>> \o ResortsVenues }

\* The `or` chain over the twenty route prefixes.
IsRouteLine(line) ==
    \E p \in ManualRoutePrefixes : Contains(line, p)

\* if 'asyncHandler' not in line and 'async (' in line: line.replace(..)
ManualWrapLine(line) ==
    IF ~Contains(line, <<"asyncHandler">>) /\ Contains(line, ASYNC_PAREN)
    THEN Replace(line, ASYNC_PAREN, HANDLER_ASYNC_PAREN)
    ELSE line

\* current.count('{') - current.count('}')
BraceDelta(line) == Count(line, "{") - Count(line, "}")

\* r"error:\s*['\"]([^'\"]*)['\"]"
ManualErrorPattern ==
    <<Lit("error:"), Ws, OneOf(Quotes), Cap(Quotes, 0), OneOf(Quotes)>>

INDENT6 == <<SP, SP, SP, SP, SP, SP>>

\* f"      throw ApiError.kind('{error_msg}');\n" when the pattern is found
ManualThrowLine(current, kind) ==
    LET match == ReSearch(ManualErrorPattern, current) IN
    IF match.ok
    THEN INDENT6 \o THROW \o <<kind, SQ>> \o match.groups[1]
         \o <<SQ, ")", ";", NL>>
    ELSE current

ManualReturn(res) == RETURN \o <<res, "{", SP, "error:">>

ServiceUnavailableLine ==
    INDENT6 \o THROW
    \o <<"ApiError.serviceUnavailable(", SQ, "Admin service not configured",
         SQ, ",", SP, SQ,
         "Please configure SUPABASE_SERVICE_ROLE_KEY environment variable",
         SQ, ")", ";", NL>>

\* The if/elif chain over the error returns.
ManualErrorRewrite(current) ==
    IF Contains(current, ManualReturn(Res500))
    THEN ManualThrowLine(current, "ApiError.internal(")
    ELSE IF Contains(current, ManualReturn(Res404))
    THEN ManualThrowLine(current, "ApiError.notFound(")
    ELSE IF Contains(current, ManualReturn(Res400))
    THEN ManualThrowLine(current, "ApiError.badRequest(")
    ELSE IF Contains(current, ManualReturn(Res409))
    THEN ManualThrowLine(current, "ApiError.conflict(")
    ELSE IF Contains(current, RETURN \o <<Res503, "{">>)
    THEN ServiceUnavailableLine
    ELSE current

WRAPPED_CLOSE_LINE == <<SP, SP>> \o CLOSE_WRAPPED \o <<NL>>

\* if '  });' in current and brace_count == 0: current = '  }));\n'
ManualAdjustClosing(current, brace_count) ==
    IF Contains(current, <<SP, SP>> \o CLOSE) /\ brace_count = 0
    THEN WRAPPED_CLOSE_LINE
    ELSE current

\* The line appended for a body line once the try was found: the error
\* rewrite, then the closing adjustment on its result.
ManualBodyRewrite(current, brace_count) ==
    CHOOSE line \in {ManualAdjustClosing(rewritten, brace_count) :
                        rewritten \in {ManualErrorRewrite(current)}} : TRUE

\* if brace_count == 0 and ('});' in current or '}));' in current)
ManualRouteComplete(current, brace_count) ==
    brace_count = 0
    /\ (Contains(current, CLOSE) \/ Contains(current, CLOSE_WRAPPED))

(***************************************************************************)
(* Input files.  A file is a run of empty lines followed by blocks of      *)
(* lines as the route file has them.                                       *)
(***************************************************************************)
INDENT2 == <<SP, SP>>
INDENT4 == <<SP, SP, SP, SP>>

\*   app.get("/api/amenities", async (req: .., res: Response) => {
HeaderLine(sig) == INDENT2 \o sig \o <<SP, "{", NL>>
\*     try {
TryLine == INDENT4 \o <<"try", SP, "{", NL>>
\*       return res.status(500).json({ error: 'Failed' });
ErrorLine(res, q) ==
    INDENT6 \o RETURN
    \o <<res, "{", SP, "error:", SP, q, "Failed", q, SP, "}", ")", ";", NL>>
\*     } catch (error) {
CatchLine == INDENT4 \o <<"}", SP, "catch", SP, "(error)", SP, "{", NL>>
\*       console.error(error);
LogLine == INDENT6 \o <<"console.error(error)", ";", NL>>
\*     }
EndBlockLine == INDENT4 \o <<"}", NL>>
\*   });
RouteCloseLine == INDENT2 \o CLOSE \o <<NL>>
\*     res.json({ ok });
JsonLine == INDENT4 \o <<"res.json(", "{", SP, "ok", SP>> \o CLOSE \o <<NL>>
\*   // === VENUES ===
SectionLine ==
    INDENT2 \o <<"//", SP, "===", SP, "VENUES", SP, "===", NL>>
\* }
EndLine == <<"}", NL>>

\* A route whose handler is a try/catch around an error return.
TryRoute(sig, res, q) ==
    <<HeaderLine(sig), TryLine, ErrorLine(res, q), CatchLine, LogLine,
      EndBlockLine, RouteCloseLine>>

\* A route whose handler has no try/catch.
PlainRoute(sig) == <<HeaderLine(sig), JsonLine, RouteCloseLine>>

Blocks ==
    { TryRoute(Signature(GET, Amenities, Public, ReqRes), Res500, SQ),
      TryRoute(Signature(PUT, AmenitiesId, EditorId("admin.amenity.update"),
                         ReqOnly), Res404, DQ),
      PlainRoute(Signature(GET, Venues, Public, ReqRes)),
      PlainRoute(Signature(GET, Locations, Public, ReqRes)),
      <<SectionLine>>,
      <<EndLine>> }

\* The sequences of at most n blocks, as sequences of lines.
RECURSIVE BlockSeqs(_)
BlockSeqs(n) ==
    IF n = 0 THEN {<<>>}
    ELSE BlockSeqs(n - 1)
         \cup {b \o r : b \in Blocks, r \in BlockSeqs(n - 1)}

EmptyText == [pad |-> 0, toks |-> <<>>]
Missing == [state |-> "missing", text |-> EmptyText]
FileOf(text) == [state |-> "file", text |-> text]

\* The files of pad empty lines (pad in pads) and at most n blocks.
Files(pads, n) ==
    {FileOf([pad |-> p, toks |-> Concat(ls)]) : p \in pads, ls \in BlockSeqs(n)}

\* A file that is there and cannot be opened.
Unreadable == [state |-> "unreadable", text |-> EmptyText]

\* The most blocks a file has.
MaxBlocks == 2

\* The input files: short ones, which end before line StartIndex, and ones
\* whose blocks start just before and at line StartIndex.
Inputs ==
    Files({0, StartIndex - 1, StartIndex}, MaxBlocks)
    \cup {Missing, Unreadable}

\* The input files on which the three scripts are run side by side.
SharedInputs == Files({0}, 1) \cup {Missing, Unreadable}

\* What is run: one script, or the three of them, on an input file.
Scenarios ==
    {[input |-> f, run |-> {s}] :
        f \in Inputs, s \in {"final", "manual", "update"}}
    \cup {[input |-> f, run |-> {"final", "manual", "update"}] :
            f \in SharedInputs}

(***************************************************************************)
(* The file system and the three processes.                                *)
(***************************************************************************)
InputPath ==
    "/Users/bryan/develop/projects/kgay-travel-guides/server/routes/locations.ts"
FinalOutputPath ==
    "/Users/bryan/develop/projects/kgay-travel-guides/server/routes/locations_final.ts"
ManualOutputPath ==
    "/Users/bryan/develop/projects/kgay-travel-guides/server/routes/locations_fixed.ts"
UpdateOutputPath ==
    "/Users/bryan/develop/projects/kgay-travel-guides/server/routes/locations_updated.ts"

Paths == {InputPath, FinalOutputPath, ManualOutputPath, UpdateOutputPath}
Scripts == {"final", "manual", "update"}

\* final_fix_locations opening the input file for its output.
OutputOverInput(s) ==
    CASE s = "final" -> InputPath
      [] s = "manual" -> ManualOutputPath
      [] s = "update" -> UpdateOutputPath

OutputPath(s) ==
    CASE s = "final" -> FinalOutputPath
      [] s = "manual" -> ManualOutputPath
      [] s = "update" -> UpdateOutputPath

\* What each script prints when it is through.
FinalMessages ==
    <<"Created locations_final.ts with all updates applied",
      "Please review before replacing the original">>
ManualMessages == <<"File fixed and saved as locations_fixed.ts">>
UpdateMessages ==
    <<"File updated successfully! Created: locations_updated.ts",
      "Please review the changes before replacing the original file.">>

VARIABLES
    files,          \* path -> [state, text]
    pc,             \* script -> where its process is
    stdout,         \* script -> what its process has printed
    content,        \* script -> the variable `content` (final, update)
    lines,          \* fix_locations_manually: the variable `lines`
    output,         \* fix_locations_manually: the variable `output`
    i,              \* fix_locations_manually: the line index
    brace_count,
    found_try,
    catch_braces

vars == <<files, pc, stdout, content, lines, output, i, brace_count,
          found_try, catch_braces>>
manualVars == <<lines, output, i, brace_count, found_try, catch_braces>>

\* A list of lines that starts with pad empty lines.
NoLines == [pad |-> 0, body |-> <<>>]
EMPTY_LINE == <<NL>>
NumLines(ls) == ls.pad + Len(ls.body)
\* ls[k], k counted from 0
LineAt(ls, k) == IF k < ls.pad THEN EMPTY_LINE ELSE ls.body[k - ls.pad + 1]
\* ls.append(line)
AppendLine(ls, line) ==
    IF ls.body = <<>> /\ line = EMPTY_LINE
    THEN [ls EXCEPT !.pad = @ + 1]
    ELSE [ls EXCEPT !.body = Append(@, line)]
\* f.readlines()
ReadLines(text) == [pad |-> text.pad, body |-> SplitLines(text.toks)]
\* f.writelines(ls)
JoinLines(ls) == [pad |-> ls.pad, toks |-> Concat(ls.body)]

\* An open(path, 'r') that never raises.
OpensAnyway(path) == path \in Paths

\* open(path, 'r') succeeds
Readable(path) == files[path].state = "file"

\* with open(path, 'w') as f: f.write(text)
WriteFile(path, text) == files' = [files EXCEPT ![path] = FileOf(text)]

\* The output files are not there yet, or, where the input cannot be read,
\* may be left from an earlier run.
InitWith(scenarios) ==
    /\ \E sc \in scenarios, old \in {Missing, FileOf(EmptyText)} :
         /\ sc.input.state = "file" => old = Missing
         /\ files = [p \in Paths |-> IF p = InputPath THEN sc.input ELSE old]
         /\ pc = [s \in Scripts |-> IF s \in sc.run THEN "start" ELSE "idle"]
    /\ stdout = [s \in Scripts |-> <<>>]
    /\ content = [s \in {"final", "update"} |-> EmptyText]
    /\ lines = NoLines
    /\ output = NoLines
    /\ i = 0
    /\ brace_count = 0
    /\ found_try = FALSE
    /\ catch_braces = 0

Goto(s, where) == pc' = [pc EXCEPT ![s] = where]

(***************************************************************************)
(* final_fix_locations.py and update_locations_routes.py                   *)
(***************************************************************************)
\* with open(.., 'r') as f: content = f.read()
Read(s) ==
    /\ pc[s] = "start"
    /\ IF Readable(InputPath)
       THEN /\ content' = [content EXCEPT ![s] = files[InputPath].text]
            /\ Goto(s, "read")
       ELSE /\ Goto(s, "failed")
            /\ UNCHANGED content
    /\ UNCHANGED <<files, stdout, manualVars>>

\* The passes never touch leading newlines: every pattern starts with a
\* character that is not white space.
FinalRewrite ==
    /\ pc["final"] = "read"
    /\ content' = [content EXCEPT !["final"].toks = FinalTransform(@)]
    /\ Goto("final", "transformed")
    /\ UNCHANGED <<files, stdout, manualVars>>

UpdateRewrite ==
    /\ pc["update"] = "read"
    /\ content' = [content EXCEPT !["update"].toks = UpdateTransform(@)]
    /\ Goto("update", "transformed")
    /\ UNCHANGED <<files, stdout, manualVars>>

\* with open(.., 'w') as f: f.write(content)
Write(s) ==
    /\ pc[s] = "transformed"
    /\ WriteFile(OutputPath(s), content[s])
    /\ Goto(s, "written")
    /\ UNCHANGED <<stdout, content, manualVars>>

FinalPrint ==
    /\ pc["final"] = "written"
    /\ stdout' = [stdout EXCEPT !["final"] = @ \o FinalMessages]
    /\ Goto("final", "done")
    /\ UNCHANGED <<files, content, manualVars>>

UpdatePrint ==
    /\ pc["update"] = "written"
    /\ stdout' = [stdout EXCEPT !["update"] = @ \o UpdateMessages]
    /\ Goto("update", "done")
    /\ UNCHANGED <<files, content, manualVars>>

(***************************************************************************)
(* fix_locations_manually.py                                               *)
(***************************************************************************)
\* with open(.., 'r') as f: lines = f.readlines(); output = []; i = 0
ManualRead ==
    /\ pc["manual"] = "start"
    /\ IF Readable(InputPath)
       THEN /\ lines' = ReadLines(files[InputPath].text)
            /\ output' = NoLines
            /\ i' = 0
            /\ Goto("manual", "scan")
       ELSE /\ Goto("manual", "failed")
            /\ UNCHANGED <<lines, output, i>>
    /\ UNCHANGED <<files, stdout, content, brace_count, found_try,
                   catch_braces>>

\* The line the loops look at: lines[i]
Current == LineAt(lines, i)

AtRoute == i >= StartIndex /\ IsRouteLine(Current)

\* Outer loop, a line that is no route (either else branch).
ManualScan ==
    /\ pc["manual"] = "scan"
    /\ i < NumLines(lines)
    /\ ~AtRoute
    /\ output' = AppendLine(output, Current)
    /\ i' = i + 1
    /\ UNCHANGED <<files, pc, stdout, content, lines, brace_count, found_try,
                   catch_braces>>

\* Outer loop, a route: wrap the header, enter the inner loop.
ManualRouteHeader ==
    /\ pc["manual"] = "scan"
    /\ i < NumLines(lines)
    /\ AtRoute
    /\ output' = AppendLine(output, ManualWrapLine(Current))
    /\ i' = i + 1
    /\ brace_count' = 0
    /\ found_try' = FALSE
    /\ Goto("manual", "route")
    /\ UNCHANGED <<files, stdout, content, lines, catch_braces>>

IsTry == ~found_try /\ Contains(Current, <<"try", SP, "{">>)
IsCatch == found_try /\ Contains(Current, <<"}", SP, "catch">>)

\* The try skip without its i += 1.
ManualTryInPlace ==
    /\ pc["manual"] = "route"
    /\ i < NumLines(lines)
    /\ IsTry
    /\ brace_count' = brace_count + BraceDelta(Current)
    /\ found_try' = TRUE
    /\ UNCHANGED <<files, pc, stdout, content, lines, output, i, catch_braces>>

\* Inner loop: the try line is dropped.
ManualTry ==
    /\ pc["manual"] = "route"
    /\ i < NumLines(lines)
    /\ IsTry
    /\ brace_count' = brace_count + BraceDelta(Current)
    /\ found_try' = TRUE
    /\ i' = i + 1
    /\ UNCHANGED <<files, pc, stdout, content, lines, output, catch_braces>>

\* Inner loop: the catch line is dropped and the catch loop entered.
ManualCatch ==
    /\ pc["manual"] = "route"
    /\ i < NumLines(lines)
    /\ ~IsTry
    /\ IsCatch
    /\ brace_count' = brace_count + BraceDelta(Current)
    /\ i' = i + 1
    /\ catch_braces' = 1
    /\ Goto("manual", "catch")
    /\ UNCHANGED <<files, stdout, content, lines, output, found_try>>

\* while i < len(lines) and catch_braces > 0
ManualCatchSkip ==
    /\ pc["manual"] = "catch"
    /\ i < NumLines(lines)
    /\ catch_braces > 0
    /\ catch_braces' = catch_braces + BraceDelta(Current)
    /\ i' = i + 1
    /\ UNCHANGED <<files, pc, stdout, content, lines, output, brace_count,
                   found_try>>

\* After the catch loop: the closing of the route, then `continue`.
ManualCatchEnd ==
    /\ pc["manual"] = "catch"
    /\ ~(i < NumLines(lines) /\ catch_braces > 0)
    /\ IF i < NumLines(lines) /\ Contains(Current, CLOSE)
       THEN /\ output' = AppendLine(output, WRAPPED_CLOSE_LINE)
            /\ i' = i + 1
       ELSE UNCHANGED <<output, i>>
    /\ Goto("manual", "route")
    /\ UNCHANGED <<files, stdout, content, lines, brace_count, found_try,
                   catch_braces>>

\* Inner loop, any other line: rewritten if the try was found, appended, and
\* the route left if it is complete.
ManualBody ==
    /\ pc["manual"] = "route"
    /\ i < NumLines(lines)
    /\ ~IsTry
    /\ ~IsCatch
    /\ \E count \in {brace_count + BraceDelta(Current)} :
       \E current \in {IF found_try THEN ManualBodyRewrite(Current, count)
                        ELSE Current} :
          /\ brace_count' = count
          /\ output' = AppendLine(output, current)
          /\ i' = i + 1
          /\ IF ManualRouteComplete(current, count)
             THEN Goto("manual", "scan")
             ELSE UNCHANGED pc
    /\ UNCHANGED <<files, stdout, content, lines, found_try, catch_braces>>

\* The inner loop ends with the file.
ManualRouteExit ==
    /\ pc["manual"] = "route"
    /\ ~(i < NumLines(lines))
    /\ Goto("manual", "scan")
    /\ UNCHANGED <<files, stdout, content, manualVars>>

\* The outer loop is through: with open(.., 'w') as f: f.writelines(output)
ManualWrite ==
    /\ pc["manual"] = "scan"
    /\ ~(i < NumLines(lines))
    /\ WriteFile(ManualOutputPath, JoinLines(output))
    /\ Goto("manual", "written")
    /\ UNCHANGED <<stdout, content, manualVars>>

ManualPrint ==
    /\ pc["manual"] = "written"
    /\ stdout' = [stdout EXCEPT !["manual"] = @ \o ManualMessages]
    /\ Goto("manual", "done")
    /\ UNCHANGED <<files, content, manualVars>>

\* The script is run again: a new process, with nothing printed yet and
\* its variables not yet assigned.
Rerun(s) ==
    /\ pc[s] \in {"done", "failed"}
    /\ Goto(s, "start")
    /\ stdout' = [stdout EXCEPT ![s] = <<>>]
    /\ IF s = "manual"
       THEN /\ lines' = NoLines
            /\ output' = NoLines
            /\ i' = 0
            /\ brace_count' = 0
            /\ found_try' = FALSE
            /\ catch_braces' = 0
            /\ UNCHANGED content
       ELSE /\ content' = [content EXCEPT ![s] = EmptyText]
            /\ UNCHANGED manualVars
    /\ UNCHANGED files

FinalNext ==
    \/ Read("final")
    \/ FinalRewrite
    \/ Write("final")
    \/ FinalPrint

UpdateNext ==
    \/ Read("update")
    \/ UpdateRewrite
    \/ Write("update")
    \/ UpdatePrint

ManualNext ==
    \/ ManualRead
    \/ ManualScan
    \/ ManualRouteHeader
    \/ ManualTry
    \/ ManualCatch
    \/ ManualCatchSkip
    \/ ManualCatchEnd
    \/ ManualBody
    \/ ManualRouteExit
    \/ ManualWrite
    \/ ManualPrint

(***************************************************************************)
(* Specifications.                                                         *)
(***************************************************************************)
Init == InitWith(Scenarios)

Next ==
    \/ FinalNext
    \/ ManualNext
    \/ UpdateNext
    \/ \E s \in Scripts : Rerun(s)

Spec == Init /\ [][Next]_vars

\* fix_locations_manually run alone, again and again, on the files that are
\* short or have their blocks from line StartIndex on.
ManualScenarios ==
    {sc \in Scenarios :
        sc.run = {"manual"} /\ sc.input.text.pad \in {0, StartIndex}}

\* The process is not held up for ever: Python runs the script statement
\* after statement until it ends.
FairSpec ==
    /\ InitWith(ManualScenarios)
    /\ [][ManualNext \/ Rerun("manual")]_vars
    /\ WF_vars(ManualNext)

(***************************************************************************)
(* C1: the input file and the output files.                                *)
(***************************************************************************)
\* The script whose process takes the step.
Steps(s) == pc'[s] # pc[s]

\* C1: no run ever writes locations.ts; a step that writes a file is the
\* write step of one script and the file is that script's own output; what
\* a run reads is locations.ts; the four paths are pairwise distinct.
OwnOutputOnly ==
    /\ Cardinality({InputPath, FinalOutputPath, ManualOutputPath,
                    UpdateOutputPath}) = 4
    /\ [][/\ files'[InputPath] = files[InputPath]
          /\ \A p \in Paths :
               files'[p] # files[p] =>
                 \E s \in Scripts :
                    /\ p = OutputPath(s)
                    /\ Steps(s) /\ pc'[s] = "written"
                    /\ \A q \in Paths \ {p} : files'[q] = files[q]
          /\ \A s \in {"final", "update"} :
               content'[s] # content[s] /\ pc'[s] = "read" =>
                 content'[s] = files[InputPath].text
          /\ pc["manual"] = "start" /\ pc'["manual"] = "scan" =>
               lines' = ReadLines(files[InputPath].text)]_vars

\* The three scripts ran side by side on a file with a route: each output
\* is there and the input is as it was.
AllThreeWritten ==
    /\ \A s \in Scripts : pc[s] = "done" /\ files[OutputPath(s)].state = "file"
    /\ files[InputPath].state = "file"
    /\ Contains(files[InputPath].text.toks, <<GET>>)
    /\ files[FinalOutputPath] # files[InputPath]

(***************************************************************************)
(* C2: a missing or unreadable input, and the order of the steps.          *)
(***************************************************************************)
InputThere == files[InputPath].state = "file"

\* The steps of a run, in order.
StepOrder(s) ==
    IF s = "manual"
    THEN {<<"start", "scan">>, <<"start", "failed">>, <<"scan", "route">>,
          <<"route", "catch">>, <<"catch", "route">>, <<"route", "scan">>,
          <<"scan", "written">>, <<"written", "done">>,
          <<"done", "start">>, <<"failed", "start">>}
    ELSE {<<"start", "read">>, <<"start", "failed">>,
          <<"read", "transformed">>, <<"transformed", "written">>,
          <<"written", "done">>, <<"done", "start">>, <<"failed", "start">>}

\* C2: with the input missing or unreadable a run goes from start to failed,
\* no file is created or modified and nothing is printed; a run writes its
\* output only in the write step, after the read and the transformation,
\* and prints its messages only after the write, and only with the input
\* read.
FailsWithoutOutput ==
    /\ [](\A s \in Scripts :
            /\ pc[s] = "failed" => ~InputThere /\ stdout[s] = <<>>
            /\ pc[s] \notin {"start", "failed", "idle"} => InputThere
            /\ stdout[s] # <<>> =>
                 pc[s] = "done" /\ files[OutputPath(s)].state = "file")
    /\ [][\A s \in Scripts :
            /\ ~InputThere => files' = files /\ stdout'[s] = <<>>
            /\ ~InputThere /\ Steps(s) /\ pc[s] = "start" => pc'[s] = "failed"
            /\ Steps(s) => <<pc[s], pc'[s]>> \in StepOrder(s)
            /\ files'[OutputPath(s)] # files[OutputPath(s)] =>
                 pc[s] \notin {"start", "written", "done", "failed"}
                 /\ pc'[s] = "written"
            /\ stdout'[s] # stdout[s] /\ stdout'[s] # <<>> =>
                 pc[s] = "written" /\ pc'[s] = "done"]_vars

\* The three scripts failed on an unreadable input, with the output files
\* of an earlier run left as they were.
AllThreeFailed ==
    /\ files[InputPath] = Unreadable
    /\ \A s \in Scripts :
         /\ pc[s] = "failed"
         /\ files[OutputPath(s)] = FileOf(EmptyText)
         /\ stdout[s] = <<>>

(***************************************************************************)
(* C3: fix_locations_manually ends.                                        *)
(***************************************************************************)
\* The process is at the head of an iteration of one of its three loops.
InIteration ==
    /\ i < NumLines(lines)
    /\ \/ pc["manual"] \in {"scan", "route"}
       \/ pc["manual"] = "catch" /\ catch_braces > 0

\* The process is in one of its loops.
InLoops == pc["manual"] \in {"scan", "route", "catch"}

\* The step is one of the process of fix_locations_manually.
ManualSteps == Steps("manual") \/ manualVars' # manualVars

\* C3: every iteration of the outer loop, of the route loop and of the
\* catch loop makes the line index i larger, the skip of the try line and
\* the catch path included; i grows only by one and only from below
\* len(lines), where lines[i] is read, and so never exceeds len(lines); and
\* a run that has read its input reaches the write step.
ManualRunsToCompletion ==
    /\ [](i <= NumLines(lines))
    /\ [][/\ InIteration /\ ManualSteps => i' > i
          /\ i' > i => i < NumLines(lines) /\ i' = i + 1
          /\ i' < i => pc'["manual"] = "start"]_vars
    /\ (pc["manual"] = "scan") ~> (pc["manual"] = "written")

\* The run is through a file with two try/catch routes after line
\* StartIndex: each loop has iterated and every line was passed.
ManualLoopsDone ==
    /\ pc["manual"] = "written"
    /\ lines.pad = StartIndex
    /\ Len(lines.body) = 14
    /\ i = NumLines(lines)
    /\ found_try
    /\ catch_braces = 0
    /\ brace_count > 0

(***************************************************************************)
(* C4: what no pattern matches is written as it was read.                  *)
(***************************************************************************)
\* The number of places where p occurs in s.
Occurrences(s, p) == Cardinality({k \in 1..Len(s) : StartsAt(s, p, k)})

\* None of the script's patterns occurs in the text.  (In
\* fix_locations_manually the error returns and the closings are looked for
\* only from a route prefix on.)
NoMatch(s, text) ==
    CASE s = "final" ->
           /\ \A k \in DOMAIN FinalRoutesToUpdate :
                ~Contains(text, FinalOld(FinalRoutesToUpdate[k]))
           /\ \A k \in DOMAIN FinalPatterns :
                Matches(text, FinalPatterns[k][1]) = {}
           /\ Matches(text, FinalCloseSection) = {}
           /\ Matches(text, FinalCloseBrace) = {}
      [] s = "update" ->
           /\ \A k \in DOMAIN UpdateRoutesToUpdate :
                ~Contains(text, UpdateRoutesToUpdate[k][1])
           /\ \A k \in DOMAIN UpdatePatterns :
                Matches(text, UpdatePatterns[k][1]) = {}
           /\ Matches(text, UpdateClosePattern) = {}
      [] s = "manual" -> ~IsRouteLine(text)

\* The lines no pattern of final_fix_locations and update_locations_routes
\* has a part in.
PlainLines == {TryLine, CatchLine, LogLine, EndBlockLine}

\* The first m lines of a list.
FirstLines(ls, m) ==
    [pad |-> IF m < ls.pad THEN m ELSE ls.pad,
     body |-> SubSeq(ls.body, 1, m - ls.pad)]

\* The number of lines that fix_locations_manually has passed and that come
\* before the first route from line StartIndex on.
BeforeFirstRoute ==
    Min({i} \cup {k \in StartIndex..(i - 1) : IsRouteLine(LineAt(lines, k))})

\* C4: a script whose patterns do not occur in the input writes the input
\* as it is; final_fix_locations and update_locations_routes write every
\* line that no pattern has a part in as often as it was read, and
\* fix_locations_manually copies the lines before the first route.
UnmatchedTextUnchanged ==
    /\ \A s \in Scripts :
         pc[s] = "written" =>
           LET in == files[InputPath].text
               out == files[OutputPath(s)].text
           IN /\ NoMatch(s, in.toks) => out = in
              /\ s # "manual" =>
                   /\ out.pad = in.pad
                   /\ \A l \in PlainLines :
                        Occurrences(out.toks, l) = Occurrences(in.toks, l)
    /\ InLoops =>
         FirstLines(output, BeforeFirstRoute)
           = FirstLines(lines, BeforeFirstRoute)

\* update_locations_routes has written, as it was, a file with a route
\* none of its patterns matches, and fix_locations_manually a file with a
\* route at line StartIndex - 1.
UnmatchedWritten ==
    \/ /\ pc["update"] = "written"
       /\ Contains(files[InputPath].text.toks, <<GET>>)
       /\ NoMatch("update", files[InputPath].text.toks)
       /\ files[UpdateOutputPath] = files[InputPath]
    \/ /\ pc["manual"] = "written"
       /\ files[InputPath].text.pad = StartIndex - 1
       /\ IsRouteLine(files[InputPath].text.toks)
       /\ files[ManualOutputPath] = files[InputPath]

(***************************************************************************)
(* C5, C6: the routes of fix_locations_manually.                           *)
(***************************************************************************)
\* if 'asyncHandler' not in line and 'async (' in line, on a route line
NeedsWrapper(line) ==
    /\ IsRouteLine(line)
    /\ Contains(line, ASYNC_PAREN)
    /\ ~Contains(line, <<"asyncHandler">>)

\* The lines of the input that are route headers to wrap.
HeaderIndexes ==
    {k \in StartIndex..(NumLines(lines) - 1) : NeedsWrapper(LineAt(lines, k))}

\* The number of lines of the output that are the given line.
OutputLines(line) ==
    Cardinality({k \in DOMAIN output.body : output.body[k] = line})

\* The number of lines of the output with the given text in them.
OutputLinesWith(p) ==
    Cardinality({k \in DOMAIN output.body : Contains(output.body[k], p)})

\* C5: every route header from line StartIndex on that has 'async (' and no
\* 'asyncHandler' is written with the wrapper: the output has the wrapped
\* line as often as the input has the header.
EveryHeaderWrapped ==
    pc["manual"] = "written" =>
      \A k \in HeaderIndexes :
         OutputLines(ManualWrapLine(LineAt(lines, k)))
           = Cardinality({h \in HeaderIndexes :
                            LineAt(lines, h) = LineAt(lines, k)})

\* C6: try and catch are removed together: the output has as many 'try {'
\* lines as '} catch' lines, as the input has.
TryAndCatchTogether ==
    pc["manual"] = "written" =>
      OutputLinesWith(<<"try", SP, "{">>)
        = OutputLinesWith(<<"}", SP, "catch">>)

(***************************************************************************)
(* C7: the closings of final_fix_locations.                                *)
(***************************************************************************)
\* C7: as many '});' are rewritten to '}));' as 'asyncHandler(' are put in
\* by the route replacements.
ClosingsMatchWrappers ==
    pc["final"] = "written" =>
      LET in == files[InputPath].text.toks
          out == files[FinalOutputPath].text.toks
      IN Occurrences(out, CLOSE_WRAPPED) - Occurrences(in, CLOSE_WRAPPED)
           = Count(out, "asyncHandler") - Count(in, "asyncHandler")

=============================================================================
